---- MODULE Spec2Model ----
(***************************************************************************)
(* A model of file_metadata: the ImageFile handle (memoized fetch, layered *)
(* config), the DictNoNone fact mapping, and the bounding-box computation  *)
(* of the two barcode analyzers (zxing text report, zbar symbol list),     *)
(* the type dispatch of ImageFile.create, and the download of auxiliary    *)
(* files into the user data directory.                                     *)
(*                                                                         *)
(* Each part has its own specification over the shared variables; the      *)
(* variables of the other parts stay at their idle values.                 *)
(***************************************************************************)
EXTENDS Integers, Sequences, FiniteSets, TLC

VARIABLES
    files,             \* handle -> the file behind it (pixel count, layout)
    cache,             \* handle -> (key -> stored object): memoized fetch
    runs,              \* handle -> key -> number of producer runs so far
    warnings,          \* handle -> number of logging.warn events emitted
    MAX_IMAGE_PIXELS,  \* PIL's process-wide Image.MAX_IMAGE_PIXELS
    lastFetch,         \* the last fetch call and what it gave the caller
    dict,              \* a DictNoNone instance
    cfgCall,           \* the arguments of a config call
    cfgResult,         \* what the config call delegated and returned
    barcodeInput,      \* what a barcode detector reported
    barcodeResult,     \* what the analyzer returned for it
    createCall,        \* the class create is called on, and what the file sniffs as
    createStack,       \* the create calls in progress, innermost last
    createLog,         \* the handles constructed so far, in order
    createRet,         \* the handle a finished create call handed back (0: none)
    createResult,      \* what the outermost create call returned
    jarFiles,          \* file name -> content in the data directory (0: absent)
    remoteJar,         \* file name -> content its url serves at present
    jarPc,             \* how many jars the running analyze_barcode_zxing has asked for
    lastDownload,      \* the last download call and what it did
    fetchCount,        \* file name -> url fetches made by calls with overwrite=False
    downloadCalls      \* number of download calls so far

vars == <<files, cache, runs, warnings, MAX_IMAGE_PIXELS, lastFetch,
          dict, cfgCall, cfgResult, barcodeInput, barcodeResult,
          createCall, createStack, createLog, createRet, createResult,
          jarFiles, remoteJar, jarPc, lastDownload, fetchCount, downloadCalls>>

fetchVars == <<files, cache, runs, warnings, MAX_IMAGE_PIXELS, lastFetch>>
dictVars == <<dict>>
configVars == <<cfgCall, cfgResult>>
barcodeVars == <<barcodeInput, barcodeResult>>
createVars == <<createCall, createStack, createLog, createRet, createResult>>
downloadVars == <<jarFiles, remoteJar, jarPc, lastDownload, fetchCount, downloadCalls>>

(***************************************************************************)
(* Bounds of the model.                                                    *)
(***************************************************************************)
NumHandles == 2

Handles == 1..NumHandles

(***************************************************************************)
(* Mappings (python dicts) are functions on a finite set of keys.          *)
(***************************************************************************)
EmptyMap == [k \in {} |-> 0]

\* dict.update: the entries of e replace and extend those of d.
Update(d, e) ==
    [k \in (DOMAIN d) \cup (DOMAIN e) |-> IF k \in DOMAIN e THEN e[k] ELSE d[k]]

PartialMaps(K, V) == UNION {[S -> V] : S \in SUBSET K}

(***************************************************************************)
(* Configuration layering.                                                 *)
(***************************************************************************)
\* int(1024 ** 3 / 4 / 3), with true division
max_decompressed_size == 89478485

ImageFileDefaults == [k \in {"max_decompressed_size"} |-> max_decompressed_size]

\* The defaults of the most general variant, GenericFile: one option of its own.
GenericFileDefaults == [k \in {"generic_opt"} |-> 7]

\* GenericFile.config: the end of the chain. Its own defaults, overridden by the
\* mapping handed up by the more specific variants; an absent key gives None.
GenericFile_config(key, new_defaults) ==
    LET defaults == Update(GenericFileDefaults, new_defaults)
    IN  IF key \in DOMAIN defaults
        THEN [found |-> TRUE, value |-> defaults[key]]
        ELSE [found |-> FALSE, value |-> 0]

\* ImageFile.config with the update turned around: its own default wins.
ImageFile_config_defaults_OwnWins(new_defaults) ==
    Update(new_defaults, ImageFileDefaults)

\* The mapping ImageFile.config hands to its superclass.
ImageFile_config_defaults(new_defaults) ==
    Update(ImageFileDefaults, new_defaults)

\* ImageFile.config(key, new_defaults): what it delegates and what it returns.
ImageFile_config(key, new_defaults) ==
    LET defaults == ImageFile_config_defaults(new_defaults)
    IN  [delegated |-> [key |-> key, new_defaults |-> defaults],
         ret |-> GenericFile_config(key, defaults)]

(***************************************************************************)
(* ImageFile.fetch, memoized per handle.                                   *)
(***************************************************************************)
FetchKeys == {"filename", "filename_raster", "filename_zxing", "ndarray"}
OtherKeys == {"no_such_key"}
AllKeys == FetchKeys \cup OtherKeys

\* The files a handle may stand for: a small image, one of exactly the
\* configured size, one beyond it, and one that skimage reads as a pair
\* (scikit-image issue 2154).
FileKinds ==
    { [pixels |-> 1, layout |-> "array"],
      [pixels |-> max_decompressed_size, layout |-> "array"],
      [pixels |-> max_decompressed_size + 1, layout |-> "array"],
      [pixels |-> 1, layout |-> "pair"] }

\* An object is known by the producer run that made it: two runs never make
\* the same object, and no two handles share one.
Obj(h, key, run, kind) == [owner |-> h, key |-> key, run |-> run, kind |-> kind]

Returned(s, obj) == [s |-> s, ok |-> TRUE, ret |-> obj]
Raised(s, exc) == [s |-> s, ok |-> FALSE, ret |-> [exc |-> exc]]

\* A producer for key starts running on handle h.
Ran(s, h, key) == [s EXCEPT !.runs[h][key] = @ + 1]

\* GenericFile.fetch: the general variant knows the file's name, and fails
\* for a key no producer recognizes.
GenericFile_fetch(s, h, key) ==
    IF key = "filename"
    THEN LET s1 == Ran(s, h, key)
         IN  Returned(s1, Obj(h, key, s1.runs[h][key], "str"))
    ELSE Raised(s, "UnsupportedKeyError")

RECURSIVE memoized_fetch(_, _, _)

\* skimage.io.imread under PIL's guard: more pixels than MAX_IMAGE_PIXELS is a
\* DecompressionBombWarning, which line 30 turns into an error.
imread_is_bomb(s, h) == files[h].pixels > s.maxpix

\* The 'ndarray' producer with the except clause left out: the decompression
\* bomb error reaches the caller.
fetch_ndarray_Unguarded(s, h) ==
    LET key == "ndarray"
        limit == ImageFile_config("max_decompressed_size", EmptyMap).ret.value
        s1 == [Ran(s, h, key) EXCEPT !.maxpix = limit]
        run == s1.runs[h][key]
        r  == memoized_fetch(s1, h, "filename_raster")
    IN  IF ~r.ok THEN r
        ELSE IF imread_is_bomb(r.s, h) THEN
            Raised(r.s, "DecompressionBombWarning")
        ELSE IF files[h].layout = "pair"
            THEN Returned(r.s, Obj(h, key, run, "elem0"))
            ELSE Returned(r.s, Obj(h, key, run, "array"))

\* The 'ndarray' producer: configure PIL's guard, decode, and on a
\* decompression bomb warn once and give the empty array.
fetch_ndarray(s, h) ==
    LET key == "ndarray"
        limit == ImageFile_config("max_decompressed_size", EmptyMap).ret.value
        s1 == [Ran(s, h, key) EXCEPT !.maxpix = limit]
        run == s1.runs[h][key]
        r  == memoized_fetch(s1, h, "filename_raster")
    IN  IF ~r.ok THEN r
        ELSE IF imread_is_bomb(r.s, h) THEN
            \* except DecompressionBombWarning: warn, naming the file
            LET f  == memoized_fetch(r.s, h, "filename")
                s2 == [f.s EXCEPT !.warnings[h] = @ + 1]
            IN  Returned(s2, Obj(h, key, run, "empty"))
        ELSE IF files[h].layout = "pair"
            THEN Returned(r.s, Obj(h, key, run, "elem0"))
            ELSE Returned(r.s, Obj(h, key, run, "array"))

\* The body of ImageFile.fetch (the producers), self.fetch being the memoized one.
ImageFile_fetch(s, h, key) ==
    IF key = "filename_raster" THEN
        LET s1 == Ran(s, h, key)
        IN  memoized_fetch(s1, h, "filename")
    ELSE IF key = "filename_zxing" THEN
        LET s1 == Ran(s, h, key)
            r  == memoized_fetch(s1, h, "filename_raster")
        IN  IF r.ok
            THEN Returned(r.s, Obj(h, key, s1.runs[h][key], "uri"))
            ELSE r
    ELSE IF key = "ndarray" THEN
        fetch_ndarray(s, h)
    ELSE GenericFile_fetch(s, h, key)

\* A memoizer that forgets: it runs the producer on every call.
memoized_fetch_Forgetful(s, h, key) ==
    ImageFile_fetch(s, h, key)

\* @memoized(is_method=True): the value computed for a key is stored on the
\* handle and returned as it is from then on; an exception stores nothing.
memoized_fetch(s, h, key) ==
    IF key \in DOMAIN s.cache[h]
    THEN Returned(s, s.cache[h][key])
    ELSE LET r == ImageFile_fetch(s, h, key)
         IN  IF r.ok
             THEN [r EXCEPT !.s.cache[h] = Update(@, [k \in {key} |-> r.ret])]
             ELSE r

NoFetch ==
    [h |-> 0, key |-> "", cached |-> FALSE, ok |-> TRUE, ret |-> [exc |-> "none"]]

InitFetchIdle ==
    /\ files = [h \in Handles |-> [pixels |-> 1, layout |-> "array"]]
    /\ cache = [h \in Handles |-> EmptyMap]
    /\ runs = [h \in Handles |-> [k \in FetchKeys |-> 0]]
    /\ warnings = [h \in Handles |-> 0]
    /\ MAX_IMAGE_PIXELS = max_decompressed_size
    /\ lastFetch = NoFetch

InitDictIdle == dict = EmptyMap

InitConfigIdle ==
    /\ cfgCall = [key |-> "", new_defaults |-> EmptyMap]
    /\ cfgResult = [done |-> FALSE]

InitBarcodeIdle ==
    /\ barcodeInput = [detector |-> "none"]
    /\ barcodeResult = [done |-> FALSE]

InitDownloadIdle ==
    /\ jarFiles = EmptyMap
    /\ remoteJar = EmptyMap
    /\ jarPc = 0
    /\ lastDownload = [called |-> FALSE]
    /\ fetchCount = EmptyMap
    /\ downloadCalls = 0

InitCreateIdle ==
    /\ createCall = [cls |-> "", mime |-> [type |-> "", subtype |-> ""], svg |-> FALSE]
    /\ createStack = <<>>
    /\ createLog = <<>>
    /\ createRet = 0
    /\ createResult = [done |-> FALSE]

\* Handles are constructed on files of any kind; nothing is fetched yet. PIL's
\* limit is process-wide: it is what PIL or another user of PIL left it at.
InitFetch ==
    /\ files \in [Handles -> FileKinds]
    /\ cache = [h \in Handles |-> EmptyMap]
    /\ runs = [h \in Handles |-> [k \in FetchKeys |-> 0]]
    /\ warnings = [h \in Handles |-> 0]
    /\ MAX_IMAGE_PIXELS \in {max_decompressed_size, 2 * max_decompressed_size}
    /\ lastFetch = NoFetch
    /\ InitDictIdle /\ InitConfigIdle /\ InitBarcodeIdle /\ InitCreateIdle
    /\ InitDownloadIdle

\* handle.fetch(key), called from outside.
fetch(h, key) ==
    LET s == [cache |-> cache, runs |-> runs, warnings |-> warnings,
              maxpix |-> MAX_IMAGE_PIXELS]
        r == memoized_fetch(s, h, key)
    IN  /\ cache' = r.s.cache
        /\ runs' = r.s.runs
        /\ warnings' = r.s.warnings
        /\ MAX_IMAGE_PIXELS' = r.s.maxpix
        /\ lastFetch' = [h |-> h, key |-> key, cached |-> key \in DOMAIN cache[h],
                         ok |-> r.ok, ret |-> r.ret]
        /\ UNCHANGED <<files, dictVars, configVars, barcodeVars, createVars, downloadVars>>

NextFetch == \E h \in Handles, key \in AllKeys : fetch(h, key)

SpecFetch == InitFetch /\ [][NextFetch]_vars

\* The object the first run of the producer for key makes on handle h; a
\* raster file name is the file name itself (line 64).
OriginKey(key) == IF key = "filename_raster" THEN "filename" ELSE key

IsFirstRunObject(obj, h, key) ==
    /\ obj.owner = h
    /\ obj.key = OriginKey(key)
    /\ obj.run = 1

\* C1: on every handle the producer of each key runs at most once; what the
\* cache holds for a key is the object its first run made on that same handle,
\* and a fetch that returns gives the caller exactly the stored object, so
\* every later fetch returns the identical object and none of another handle.
C1_FetchComputesOnce ==
    /\ \A h \in Handles : \A k \in FetchKeys : runs[h][k] <= 1
    /\ \A h \in Handles : \A k \in DOMAIN cache[h] :
            /\ IsFirstRunObject(cache[h][k], h, k)
            /\ runs[h][k] = 1
    /\ (lastFetch.h # 0 /\ lastFetch.ok) =>
            /\ lastFetch.key \in DOMAIN cache[lastFetch.h]
            /\ lastFetch.ret = cache[lastFetch.h][lastFetch.key]
            /\ lastFetch.ret.owner = lastFetch.h

\* A repeated fetch('ndarray') answered from the cache, while another handle
\* holds an array of its own.
C1_Witness ==
    /\ lastFetch.h = 1 /\ lastFetch.key = "ndarray"
    /\ lastFetch.cached /\ lastFetch.ok
    /\ runs[1]["ndarray"] = 1
    /\ "ndarray" \in DOMAIN cache[2]
    /\ cache[2]["ndarray"] # cache[1]["ndarray"]

ExceedsConfiguredMax(h) == files[h].pixels > max_decompressed_size

NumDictKeys == 3

DictKeys == 1..NumDictKeys
None == "None"
DictValues == {"a", "b", "c"}

\* DictNoNone.__init__: dict.__init__, then every item whose value is None is
\* deleted (the loop runs over the list python 2's items() returns).
DictNoNone_init(items) ==
    [k \in {j \in DOMAIN items : items[j] # None} |-> items[k]]

\* DictNoNone.__setitem__: the item is set when the key is already present or
\* the value is not None.
DictNoNone_setitem(d, key, value) ==
    IF key \in DOMAIN d \/ value # None
    THEN Update(d, [k \in {key} |-> value])
    ELSE d

InitDict ==
    /\ dict \in {DictNoNone_init(items) :
                    items \in PartialMaps(DictKeys, DictValues \cup {None})}
    /\ InitFetchIdle /\ InitConfigIdle /\ InitBarcodeIdle /\ InitCreateIdle
    /\ InitDownloadIdle

\* d[key] = value
setitem(key, value) ==
    /\ dict' = DictNoNone_setitem(dict, key, value)
    /\ UNCHANGED <<fetchVars, configVars, barcodeVars, createVars, downloadVars>>

NextDict == \E key \in DictKeys, value \in DictValues \cup {None} : setitem(key, value)

SpecDict == InitDict /\ [][NextDict]_vars

\* C2: a DictNoNone never maps a key to None, after construction and after any
\* sequence of item assignments.
C2_NoKeyMapsToNone == \A k \in DOMAIN dict : dict[k] # None

(***************************************************************************)
(* ImageFile.config called with any key and any mapping of new defaults    *)
(* (a more specific variant's defaults, or a caller's).                    *)
(***************************************************************************)
ConfigKeys == {"max_decompressed_size", "generic_opt", "variant_opt", "absent_opt"}
NewDefaultKeys == {"max_decompressed_size", "generic_opt", "variant_opt"}
MaxConfigValue == 2

ConfigValues == 1..MaxConfigValue

InitConfig ==
    /\ cfgCall \in [key : ConfigKeys,
                    new_defaults : PartialMaps(NewDefaultKeys, ConfigValues)]
    /\ cfgResult = [done |-> FALSE]
    /\ InitFetchIdle /\ InitDictIdle /\ InitBarcodeIdle /\ InitCreateIdle
    /\ InitDownloadIdle

\* handle.config(key, new_defaults) on an ImageFile
config ==
    /\ ~cfgResult.done
    /\ LET r == ImageFile_config(cfgCall.key, cfgCall.new_defaults)
       IN  cfgResult' = [done |-> TRUE, delegated |-> r.delegated, ret |-> r.ret]
    /\ UNCHANGED <<cfgCall, fetchVars, dictVars, barcodeVars, createVars, downloadVars>>

NextConfig == config

SpecConfig == InitConfig /\ [][NextConfig]_vars

\* C10: ImageFile.config hands its superclass the key and a mapping in which
\* every entry of new_defaults stands as given, ImageFile's own default stands
\* for max_decompressed_size only when new_defaults has none, and nothing else;
\* the answer is the superclass's: an entry of new_defaults wins, a key only
\* ImageFile or only GenericFile defines is still seen, an absent key is absent.
C10_ConfigLayering ==
    cfgResult.done =>
        LET key == cfgCall.key
            nd == cfgCall.new_defaults
            merged == cfgResult.delegated.new_defaults
        IN  /\ cfgResult.delegated.key = key
            /\ DOMAIN merged = (DOMAIN nd) \cup {"max_decompressed_size"}
            /\ \A k \in DOMAIN nd : merged[k] = nd[k]
            /\ "max_decompressed_size" \notin DOMAIN nd =>
                    merged["max_decompressed_size"] = 89478485
            /\ key \in DOMAIN nd =>
                    cfgResult.ret = [found |-> TRUE, value |-> nd[key]]
            /\ (key = "max_decompressed_size" /\ key \notin DOMAIN nd) =>
                    cfgResult.ret = [found |-> TRUE, value |-> 89478485]
            /\ (key = "generic_opt" /\ key \notin DOMAIN nd) =>
                    cfgResult.ret = [found |-> TRUE,
                                     value |-> GenericFileDefaults["generic_opt"]]
            /\ (key \notin (DOMAIN nd) \cup {"max_decompressed_size", "generic_opt"}) =>
                    ~cfgResult.ret.found

\* A call whose new_defaults override max_decompressed_size, answered with the
\* override.
C10_Witness ==
    /\ cfgResult.done
    /\ cfgCall.key = "max_decompressed_size"
    /\ "max_decompressed_size" \in DOMAIN cfgCall.new_defaults
    /\ cfgCall.new_defaults["max_decompressed_size"] = 1
    /\ cfgResult.ret = [found |-> TRUE, value |-> 1]
    /\ cfgResult.delegated.new_defaults["max_decompressed_size"] = 1

(***************************************************************************)
(* The barcode analyzers: from what the detector reports to the records.   *)
(*                                                                         *)
(* zxing prints each result point as "(x, y)" with two java floats, which  *)
(* always carry a decimal point: a printed coordinate is its integer part  *)
(* ip and its first fractional digit fr, standing for ip.fr.  zbar gives   *)
(* each symbol's location as a list of integer points.                     *)
(***************************************************************************)
MaxCoord == 10
MaxZbarPts == 4

Grid == {0, 1, MaxCoord \div 2, MaxCoord - 1, MaxCoord}
Grid4 == {0, 1, MaxCoord - 1, MaxCoord}
Grid3 == {0, MaxCoord \div 2, MaxCoord}
Fracs == {0, 5}

TextPoint(x, y, fx, fy) == [x |-> [ip |-> x, fr |-> fx], y |-> [ip |-> y, fr |-> fy]]

\* One block of a zxing report: format, raw and parsed text, N points.
ZxingBlock(points) ==
    [format |-> IF Len(points) = 4 THEN "QR_CODE" ELSE "CODE_128",
     raw |-> "raw", parsed |-> "parsed", points |-> points]

ZxingPoints1 == {<<TextPoint(x, y, f, f)>> : x \in Grid3, y \in Grid3, f \in Fracs}

ZxingPoints2 ==
    {<<TextPoint(p[1], p[2], f[1], f[2]), TextPoint(p[3], p[4], f[3], f[4])>> :
        p \in Grid \X Grid \X Grid \X Grid, f \in Fracs \X Fracs \X Fracs \X Fracs}

ZxingPoints3 ==
    {<<TextPoint(p[1], p[2], 0, 0), TextPoint(p[3], p[4], 0, 0),
       TextPoint(p[5], p[6], 0, 0)>> :
        p \in Grid3 \X Grid3 \X Grid3 \X Grid3 \X Grid3 \X Grid3}

\* Four points, in the report's order bottomLeft, topLeft, topRight, bottomRight;
\* the coordinates of one block share their fractional digit.
ZxingPoints4 ==
    {<<TextPoint(p[1], p[2], f, f), TextPoint(p[3], p[4], f, f),
       TextPoint(p[5], p[6], f, f), TextPoint(p[7], p[8], f, f)>> :
        p \in Grid4 \X Grid4 \X Grid4 \X Grid4 \X Grid4 \X Grid4 \X Grid4 \X Grid4,
        f \in Fracs}

\* line 300: an image all of whose dimensions are below this is not decoded
MinBarcodeSize == 4

\* fetch('ndarray').shape of an rgb image that holds every point of the grid
FullShape == <<MaxCoord + 1, MaxCoord + 1, 3>>

\* The shapes fetch('ndarray') can give besides: the empty placeholder of the
\* resource guard, numpy.ndarray(0); greyscale, rgb and rgba images of
\* MinBarcodeSize - 1 pixels a side; an image that is low but wide; a small and
\* a full-size animated image.
OtherShapes ==
    LET s == MinBarcodeSize - 1
    IN  {<<0>>, <<s, s>>, <<s, s, 3>>, <<s, s, 4>>, <<s, MaxCoord + 1, 3>>,
         <<2, s, s, 3>>, <<2, MaxCoord + 1, MaxCoord + 1, 3>>}

\* An image of fewer than MinBarcodeSize pixels a side holds no barcode.
HoldsNoBarcode(s) ==
    \/ Len(s) \in {2, 3} /\ s[1] < MinBarcodeSize /\ s[2] < MinBarcodeSize
    \/ Len(s) = 4 /\ s[2] < MinBarcodeSize /\ s[3] < MinBarcodeSize

\* A zxing report: no block stands for the output "No barcode found".  The
\* decoder reads the file, not the array: what it reports does not depend on
\* the shape.
ZxingReports ==
    {[detector |-> "zxing", shape |-> FullShape, blocks |-> <<>>]} \cup
    {[detector |-> "zxing", shape |-> FullShape, blocks |-> <<ZxingBlock(pts)>>] :
        pts \in ZxingPoints1 \cup ZxingPoints2 \cup ZxingPoints3 \cup ZxingPoints4} \cup
    UNION {{[detector |-> "zxing", shape |-> s, blocks |-> b] :
                b \in {<<>>} \cup
                      IF HoldsNoBarcode(s) THEN {}
                      ELSE {<<ZxingBlock(<<TextPoint(0, 0, 0, 0),
                                           TextPoint(1, 1, 0, 0)>>)>>}} :
           s \in OtherShapes}

ZbarLocations == UNION {[1..n -> Grid3 \X Grid3] : n \in 1..MaxZbarPts}

\* What zbar found: no symbol, or one with its location.
ZbarScans ==
    {[detector |-> "zbar", shape |-> FullShape, symbols |-> <<>>]} \cup
    {[detector |-> "zbar", shape |-> FullShape,
      symbols |-> <<[data |-> "data", quality |-> 1, type |-> "QRCODE",
                     location |-> loc]>>] : loc \in ZbarLocations} \cup
    UNION {{[detector |-> "zbar", shape |-> s, symbols |-> b] :
                b \in {<<>>} \cup
                      IF HoldsNoBarcode(s) \/ Len(s) = 1 THEN {}
                      ELSE {<<[data |-> "data", quality |-> 1, type |-> "QRCODE",
                               location |-> <<<<0, 0>>, <<1, 1>>>>]>>}} :
           s \in OtherShapes}

Min2(a, b) == IF a <= b THEN a ELSE b
Max2(a, b) == IF a >= b THEN a ELSE b
SetMin(S) == CHOOSE m \in S : \A e \in S : m <= e
SetMax(S) == CHOOSE m \in S : \A e \in S : m >= e

\* float(pt.group(n)): group n of the point pattern is the "(\d*[.])?" of the
\* n-th number, the digits up to and including the decimal point, so the float
\* is the integer part of the printed coordinate.
float_of_group(c) == [ip |-> c.ip, fr |-> 0]

\* lines 344-348: the points list of one block
parse_points(textPoints) ==
    [i \in 1..Len(textPoints) |->
        <<float_of_group(textPoints[i].x), float_of_group(textPoints[i].y)>>]

\* python's int() of a non-negative float
int(f) == f.ip

\* The 2-point box without the inclusive-edge correction.
bbox_2_points_Exclusive(points) ==
    LET l == <<int(points[1][1]), int(points[1][2])>>
        r == <<int(points[2][1]), int(points[2][2])>>
    IN  [left |-> l[1], top |-> l[2],
         width |-> r[1] - l[1], height |-> r[2] - l[2]]

\* num_pts == 2: left, right
bbox_2_points(points) ==
    LET l == <<int(points[1][1]), int(points[1][2])>>
        r == <<int(points[2][1]), int(points[2][2])>>
    IN  [left |-> l[1], top |-> l[2],
         width |-> r[1] - l[1] + 1, height |-> r[2] - l[2] + 1]

\* The 4-point box measured along the bottom and the left edge only.
bbox_4_points_OneEdge(points) ==
    LET lb == <<int(points[1][1]), int(points[1][2])>>
        lt == <<int(points[2][1]), int(points[2][2])>>
        rt == <<int(points[3][1]), int(points[3][2])>>
        rb == <<int(points[4][1]), int(points[4][2])>>
    IN  [left |-> Min2(lb[1], lt[1]),
         top |-> Min2(lt[2], rt[2]),
         width |-> rb[1] - lb[1],
         height |-> lb[2] - lt[2]]

\* num_pts == 4: bottomLeft, topLeft, topRight, bottomRight
bbox_4_points(points) ==
    LET lb == <<int(points[1][1]), int(points[1][2])>>
        lt == <<int(points[2][1]), int(points[2][2])>>
        rt == <<int(points[3][1]), int(points[3][2])>>
        rb == <<int(points[4][1]), int(points[4][2])>>
    IN  [left |-> Min2(lb[1], lt[1]),
         top |-> Min2(lt[2], rt[2]),
         width |-> Max2(rb[1] - lb[1], rt[1] - lt[1]),
         height |-> Max2(rb[2] - rt[2], lb[2] - lt[2])]

\* lines 333-364: the record of one block of the report
zxing_record(block) ==
    LET num_pts == Len(block.points)
        points == parse_points(block.points)
        bbox == IF num_pts = 2 THEN bbox_2_points(points)
                ELSE IF num_pts = 4 THEN bbox_4_points(points)
                ELSE EmptyMap
    IN  [format |-> block.format, points |-> points, raw_data |-> block.raw,
         data |-> block.parsed, bounding_box |-> bbox]

\* analyze_barcode_zxing, from the decoder's output on
zxing_facts(report) ==
    IF report.blocks = <<>>
    THEN EmptyMap
    ELSE [k \in {"zxing:Barcodes"} |->
            [i \in 1..Len(report.blocks) |-> zxing_record(report.blocks[i])]]

\* The zbar box with the inclusive-edge correction of the zxing 2-point box.
zbar_bbox_Inclusive(location) ==
    LET xs == {location[i][1] : i \in DOMAIN location}
        ys == {location[i][2] : i \in DOMAIN location}
    IN  [left |-> SetMin(xs), top |-> SetMin(ys),
         width |-> SetMax(xs) - SetMin(xs) + 1,
         height |-> SetMax(ys) - SetMin(ys) + 1]

\* lines 397-400: the box around a symbol's location
zbar_bbox(location) ==
    LET xs == {location[i][1] : i \in DOMAIN location}
        ys == {location[i][2] : i \in DOMAIN location}
    IN  [left |-> SetMin(xs), top |-> SetMin(ys),
         width |-> SetMax(xs) - SetMin(xs),
         height |-> SetMax(ys) - SetMin(ys)]

zbar_record(symbol) ==
    [data |-> symbol.data, bounding_box |-> zbar_bbox(symbol.location),
     confidence |-> symbol.quality, format |-> symbol.type]

\* analyze_barcode_zbar, from the scan on
zbar_facts(scan) ==
    IF Len(scan.symbols) = 0
    THEN EmptyMap
    ELSE [k \in {"zbar:Barcodes"} |->
            [i \in 1..Len(scan.symbols) |-> zbar_record(scan.symbols[i])]]

InitBarcode ==
    /\ barcodeInput \in ZxingReports \cup ZbarScans
    /\ barcodeResult = [done |-> FALSE]
    /\ InitFetchIdle /\ InitDictIdle /\ InitConfigIdle /\ InitCreateIdle
    /\ InitDownloadIdle

\* line 300: all(map(lambda x: x < 4, shape))
all_below_4(shape) == \A i \in DOMAIN shape : shape[i] < MinBarcodeSize

\* lines 386-388: rgb2grey takes a 2-D array as it is and drops the last axis
\* of a longer one; "height, width = image_array.shape" needs two axes left.
\* Any other shape raises ValueError, in rgb2grey or at the unpacking.
zbar_shape_raises(shape) == Len(shape) \notin {2, 3}

\* Each result says whether the call raised, whether the external detector
\* was run (invoked), and the facts returned.
analyze_barcode_zxing ==
    /\ barcodeInput.detector = "zxing"
    /\ ~barcodeResult.done
    /\ barcodeResult' =
            IF all_below_4(barcodeInput.shape)
            THEN [done |-> TRUE, raised |-> FALSE, invoked |-> FALSE, facts |-> EmptyMap]
            ELSE [done |-> TRUE, raised |-> FALSE, invoked |-> TRUE,
                  facts |-> zxing_facts(barcodeInput)]
    /\ UNCHANGED <<barcodeInput, fetchVars, dictVars, configVars, createVars, downloadVars>>

analyze_barcode_zbar ==
    /\ barcodeInput.detector = "zbar"
    /\ ~barcodeResult.done
    /\ barcodeResult' =
            IF zbar_shape_raises(barcodeInput.shape)
            THEN [done |-> TRUE, raised |-> TRUE, invoked |-> FALSE, facts |-> EmptyMap]
            ELSE [done |-> TRUE, raised |-> FALSE, invoked |-> TRUE,
                  facts |-> zbar_facts(barcodeInput)]
    /\ UNCHANGED <<barcodeInput, fetchVars, dictVars, configVars, createVars, downloadVars>>

NextBarcode == analyze_barcode_zxing \/ analyze_barcode_zbar

SpecBarcode == InitBarcode /\ [][NextBarcode]_vars

\* The analyzer returned after running its detector on the image.
ZxingDone == barcodeResult.done /\ barcodeInput.detector = "zxing" /\ barcodeResult.invoked
ZbarDone == barcodeResult.done /\ barcodeInput.detector = "zbar" /\ barcodeResult.invoked

\* The i-th record of the analyzer's result, and the i-th reported block or symbol.
ZxingRecord(i) == barcodeResult.facts["zxing:Barcodes"][i]
ZbarRecord(i) == barcodeResult.facts["zbar:Barcodes"][i]

\* C3: a zxing block with exactly 2 result points (x0,y0),(x1,y1) gets the box
\* left = x0, top = y0, width = x1 - x0 + 1, height = y1 - y0 + 1, the
\* coordinates being the integer parts of the reported ones.
C3_TwoPointBox ==
    ZxingDone =>
        \A i \in DOMAIN barcodeInput.blocks :
            LET p == barcodeInput.blocks[i].points
            IN  Len(p) = 2 =>
                    ZxingRecord(i).bounding_box =
                        [left |-> p[1].x.ip, top |-> p[1].y.ip,
                         width |-> p[2].x.ip - p[1].x.ip + 1,
                         height |-> p[2].y.ip - p[1].y.ip + 1]

\* The report (0,0)-(9,9) analyzed: the box is {left 0, top 0, width 10, height 10}.
C3_Witness ==
    /\ ZxingDone
    /\ barcodeInput.blocks = <<ZxingBlock(<<TextPoint(0, 0, 0, 0), TextPoint(9, 9, 0, 0)>>)>>
    /\ ZxingRecord(1).bounding_box = [left |-> 0, top |-> 0, width |-> 10, height |-> 10]

\* C4: a zxing block with exactly 4 result points bottom-left, top-left,
\* top-right, bottom-right gets left = min(bl.x, tl.x), top = min(tl.y, tr.y),
\* width = max(br.x - bl.x, tr.x - tl.x), height = max(br.y - tr.y, bl.y - tl.y),
\* the coordinates being the integer parts of the reported ones.
C4_FourPointBox ==
    ZxingDone =>
        \A i \in DOMAIN barcodeInput.blocks :
            LET p == barcodeInput.blocks[i].points
                box == ZxingRecord(i).bounding_box
            IN  Len(p) = 4 =>
                    LET bl == p[1]  tl == p[2]  tr == p[3]  br == p[4]
                        bottom == br.x.ip - bl.x.ip
                        upper == tr.x.ip - tl.x.ip
                        right == br.y.ip - tr.y.ip
                        leftEdge == bl.y.ip - tl.y.ip
                    IN  /\ DOMAIN box = {"left", "top", "width", "height"}
                        /\ box.left = (IF bl.x.ip <= tl.x.ip THEN bl.x.ip ELSE tl.x.ip)
                        /\ box.top = (IF tl.y.ip <= tr.y.ip THEN tl.y.ip ELSE tr.y.ip)
                        /\ box.width = (IF bottom >= upper THEN bottom ELSE upper)
                        /\ box.height = (IF right >= leftEdge THEN right ELSE leftEdge)

\* The report (0,10),(0,0),(10,0),(10,10) analyzed: the box is
\* {left 0, top 0, width 10, height 10}.
C4_Witness ==
    /\ ZxingDone
    /\ barcodeInput.blocks =
         <<ZxingBlock(<<TextPoint(0, 10, 0, 0), TextPoint(0, 0, 0, 0),
                        TextPoint(10, 0, 0, 0), TextPoint(10, 10, 0, 0)>>)>>
    /\ ZxingRecord(1).bounding_box = [left |-> 0, top |-> 0, width |-> 10, height |-> 10]

\* C5: a zbar symbol with one or more integer points gets left = the least x,
\* top = the least y, width = greatest x - least x, height = greatest y -
\* least y over all its points, with nothing added.
C5_ZbarBox ==
    ZbarDone =>
        \A i \in DOMAIN barcodeInput.symbols :
            LET loc == barcodeInput.symbols[i].location
                box == ZbarRecord(i).bounding_box
            IN  /\ DOMAIN box = {"left", "top", "width", "height"}
                /\ \E j \in DOMAIN loc : loc[j][1] = box.left
                /\ \E j \in DOMAIN loc : loc[j][2] = box.top
                /\ \E j \in DOMAIN loc : loc[j][1] = box.left + box.width
                /\ \E j \in DOMAIN loc : loc[j][2] = box.top + box.height
                /\ \A j \in DOMAIN loc :
                        /\ box.left <= loc[j][1] /\ loc[j][1] <= box.left + box.width
                        /\ box.top <= loc[j][2] /\ loc[j][2] <= box.top + box.height

\* The location [(0,0),(5,5),(10,0)] analyzed: the box is
\* {left 0, top 0, width 10, height 5}.
C5_Witness ==
    /\ ZbarDone
    /\ Len(barcodeInput.symbols) = 1
    /\ barcodeInput.symbols[1].location = <<<<0, 0>>, <<5, 5>>, <<10, 0>>>>
    /\ ZbarRecord(1).bounding_box = [left |-> 0, top |-> 0, width |-> 10, height |-> 5]

\* C6: every record of analyze_barcode_zxing with 2 or 4 points, and every
\* record of analyze_barcode_zbar, has width >= 0 and height >= 0, whatever the
\* order and position of the detected points.
C6_BoxNeverNegative ==
    /\ ZxingDone =>
        \A i \in DOMAIN barcodeInput.blocks :
            Len(barcodeInput.blocks[i].points) \in {2, 4} =>
                /\ ZxingRecord(i).bounding_box.width >= 0
                /\ ZxingRecord(i).bounding_box.height >= 0
    /\ ZbarDone =>
        \A i \in DOMAIN barcodeInput.symbols :
            /\ ZbarRecord(i).bounding_box.width >= 0
            /\ ZbarRecord(i).bounding_box.height >= 0

\* The reported coordinate c = ip.fr lies in [lo, hi], in tenths of a pixel.
Within(c, lo, hi) == 10 * lo <= 10 * c.ip + c.fr /\ 10 * c.ip + c.fr <= 10 * hi

\* The four points are on the sides their order names: both left corners are
\* left of both right corners, both top corners above both bottom corners.
OrderedQuadrilateral(p) ==
    /\ \A l \in {1, 2} : \A r \in {3, 4} : p[l].x.ip < p[r].x.ip
    /\ \A u \in {2, 3} : \A b \in {1, 4} : p[u].y.ip < p[b].y.ip

\* C7: the box of a record contains every raw detection point of the record,
\* also for a skewed quadrilateral: stated for the zxing 4-point records whose
\* points come in the order the analyzer expects, with whole coordinates.
C7_BoxContainsAllPoints ==
    ZxingDone =>
        \A i \in DOMAIN barcodeInput.blocks :
            LET p == barcodeInput.blocks[i].points
                box == ZxingRecord(i).bounding_box
            IN  (Len(p) = 4 /\ OrderedQuadrilateral(p)) =>
                    \A j \in DOMAIN p :
                        /\ Within(p[j].x, box.left, box.left + box.width)
                        /\ Within(p[j].y, box.top, box.top + box.height)

\* C8: a zxing record carries the points of its block as reported, in report
\* order, each the pair of floats the report prints, fraction included.
C8_PointsAsReported ==
    ZxingDone =>
        \A i \in DOMAIN barcodeInput.blocks :
            LET p == barcodeInput.blocks[i].points
                rec == ZxingRecord(i)
            IN  /\ "points" \in DOMAIN rec
                /\ Len(rec.points) = Len(p)
                /\ \A j \in DOMAIN p : rec.points[j] = <<p[j].x, p[j].y>>

RecordsOf(facts) == facts[CHOOSE k \in DOMAIN facts : TRUE]

\* C13: analyze_barcode_zxing never emits a half-constructed record: it
\* returns the empty mapping, or every record it returns, whatever the number
\* of result points of its block, has a bounding box with the four keys left,
\* top, width and height.
C13_NoHalfConstructedRecord ==
    ZxingDone =>
        \/ DOMAIN barcodeResult.facts = {}
        \/ \A i \in DOMAIN RecordsOf(barcodeResult.facts) :
                DOMAIN RecordsOf(barcodeResult.facts)[i].bounding_box =
                    {"left", "top", "width", "height"}

\* The image is the empty placeholder of the resource guard.
IsPlaceholder == barcodeInput.shape = <<0>>

\* A greyscale, rgb or rgba image whose height and width are both below 4.
IsTooSmall ==
    /\ Len(barcodeInput.shape) \in {2, 3}
    /\ barcodeInput.shape[1] < 4
    /\ barcodeInput.shape[2] < 4

\* The detector ran and reported nothing.
ZeroResults ==
    /\ barcodeResult.invoked
    /\ \/ barcodeInput.detector = "zxing" /\ barcodeInput.blocks = <<>>
       \/ barcodeInput.detector = "zbar" /\ barcodeInput.symbols = <<>>

\* C14, for the two barcode analyzers: on the empty placeholder, on an image
\* whose height and width are both below 4 whatever its channels, and when the
\* detector reports nothing, the analyzer returns the empty mapping and does
\* not raise; and analyze_barcode_zxing does not run the decoder on an image
\* that is too small.
C14_DegradedInputGivesEmpty ==
    barcodeResult.done =>
        /\ (IsPlaceholder \/ IsTooSmall \/ ZeroResults) =>
                ~barcodeResult.raised /\ DOMAIN barcodeResult.facts = {}
        /\ (barcodeInput.detector = "zxing" /\ IsTooSmall) => ~barcodeResult.invoked

(***************************************************************************)
(* ImageFile.create: the type dispatch.  A create call constructs a handle *)
(* of its class, sniffs it, and either hands the call on to the create of  *)
(* a more specific variant or constructs the handle it returns.            *)
(***************************************************************************)
MaxCreateDepth == 4

\* The classes create is called on: ImageFile, a variant that inherits
\* ImageFile.create as it is, and the three variants the rules name.
CreateClasses == {"ImageFile", "InheritingFile", "JPEGFile", "XCFFile", "SVGFile"}

\* The classes whose create is ImageFile.create; JPEGFile, XCFFile and SVGFile
\* define their own.
InheritsCreate(cls) == cls \in {"ImageFile", "InheritingFile"}

MimeTypes == {"image", "application", "text"}
MimeSubtypes == {"jpeg", "x-xcf", "svg+xml", "png"}

\* The rules with the content test first.
ImageFile_create_target_SvgFirst(cls, mime, svg) ==
    IF svg THEN "SVGFile"
    ELSE IF mime.type = "image" /\ mime.subtype = "jpeg" THEN "JPEGFile"
    ELSE IF mime.type \in {"image", "application"} /\ mime.subtype = "x-xcf"
        THEN "XCFFile"
    ELSE ""

\* The jpeg rule handing the call to the create of the class it was called on.
ImageFile_create_target_SameClass(cls, mime, svg) ==
    IF mime.type = "image" /\ mime.subtype = "jpeg" THEN cls
    ELSE IF mime.type \in {"image", "application"} /\ mime.subtype = "x-xcf"
        THEN "XCFFile"
    ELSE IF svg THEN "SVGFile"
    ELSE ""

\* lines 49-57: the variant whose create the call is handed to ("": none, the
\* call falls through to line 58). svg is cls_file.is_type('svg').
ImageFile_create_target(cls, mime, svg) ==
    IF mime.type = "image" /\ mime.subtype = "jpeg" THEN "JPEGFile"
    ELSE IF mime.type \in {"image", "application"} /\ mime.subtype = "x-xcf"
        THEN "XCFFile"
    ELSE IF svg THEN "SVGFile"
    ELSE ""

\* cls(*args, **kwargs): a new handle; sniffed says whether mime() ran on it.
Constructed(log, cls, sniffed) == Append(log, [cls |-> cls, sniffed |-> sniffed])

TopFrame == createStack[Len(createStack)]
Popped == SubSeq(createStack, 1, Len(createStack) - 1)

\* The innermost call returns handle number h to its caller.
ReturnHandle(h) ==
    /\ createStack' = Popped
    /\ createRet' = h
    /\ createResult' = IF Len(createStack) = 1
                       THEN [done |-> TRUE, handle |-> h]
                       ELSE createResult

InitCreate ==
    /\ createCall \in [cls : CreateClasses,
                       mime : [type : MimeTypes, subtype : MimeSubtypes],
                       svg : BOOLEAN]
    /\ createStack = <<>>
    /\ createLog = <<>>
    /\ createRet = 0
    /\ createResult = [done |-> FALSE]
    /\ InitFetchIdle /\ InitDictIdle /\ InitConfigIdle /\ InitBarcodeIdle
    /\ InitDownloadIdle

\* cls.create(path), called from outside
create_call ==
    /\ createStack = <<>>
    /\ createLog = <<>>
    /\ ~createResult.done
    /\ createStack' = <<[cls |-> createCall.cls, pc |-> "start"]>>
    /\ UNCHANGED <<createCall, createLog, createRet, createResult,
                   fetchVars, dictVars, configVars, barcodeVars, downloadVars>>

\* The body of ImageFile.create, run for the class of the innermost call.
ImageFile_create ==
    /\ createStack # <<>>
    /\ TopFrame.pc = "start"
    /\ InheritsCreate(TopFrame.cls)
    /\ LET cls == TopFrame.cls
           log1 == Constructed(createLog, cls, TRUE)
           target == ImageFile_create_target(cls, createCall.mime, createCall.svg)
       IN  IF target # ""
           THEN /\ Len(createStack) < MaxCreateDepth
                /\ createLog' = log1
                /\ createStack' = Append([createStack EXCEPT ![Len(createStack)].pc = "waiting"],
                                         [cls |-> target, pc |-> "start"])
                /\ UNCHANGED <<createRet, createResult>>
           ELSE /\ createLog' = Constructed(log1, cls, FALSE)
                /\ ReturnHandle(Len(log1) + 1)
    /\ UNCHANGED <<createCall, fetchVars, dictVars, configVars, barcodeVars, downloadVars>>

\* The create of JPEGFile, XCFFile and SVGFile: a handle of the variant.
Variant_create ==
    /\ createStack # <<>>
    /\ TopFrame.pc = "start"
    /\ ~InheritsCreate(TopFrame.cls)
    /\ createLog' = Constructed(createLog, TopFrame.cls, FALSE)
    /\ ReturnHandle(Len(createLog) + 1)
    /\ UNCHANGED <<createCall, fetchVars, dictVars, configVars, barcodeVars, downloadVars>>

\* return X.create(*args, **kwargs): the nested call's handle is handed on.
create_return ==
    /\ createStack # <<>>
    /\ TopFrame.pc = "waiting"
    /\ createRet # 0
    /\ ReturnHandle(createRet)
    /\ UNCHANGED <<createCall, createLog, fetchVars, dictVars, configVars, barcodeVars, downloadVars>>

NextCreate == create_call \/ ImageFile_create \/ Variant_create \/ create_return

\* One thread runs the calls: a call that can take its next step takes it.
SpecCreate == InitCreate /\ [][NextCreate]_vars /\ WF_vars(NextCreate)

IsJpeg == createCall.mime.type = "image" /\ createCall.mime.subtype = "jpeg"
IsXcf == createCall.mime.type \in {"image", "application"} /\ createCall.mime.subtype = "x-xcf"
NoRuleMatches == ~IsJpeg /\ ~IsXcf /\ ~createCall.svg

CreateDoneOnImageFile == createResult.done /\ InheritsCreate(createCall.cls)

\* The outer call runs ImageFile.create and has handed the call on.
CreateHandedOn == Len(createStack) = 2 /\ InheritsCreate(createStack[1].cls)

\* C11 as amended: ImageFile.create first constructs and sniffs a handle of its
\* class, then takes the first rule that matches, in the order jpeg, x-xcf,
\* svg, and hands the call to that variant's create; if no rule matches it
\* hands the call to nobody and returns a second, newly constructed handle of
\* its class, not the one it sniffed.
C11_FirstRuleWinsElseNewHandle ==
    /\ CreateHandedOn =>
        /\ createLog[1] = [cls |-> createCall.cls, sniffed |-> TRUE]
        /\ ~NoRuleMatches
        /\ IsJpeg => createStack[2].cls = "JPEGFile"
        /\ (~IsJpeg /\ IsXcf) => createStack[2].cls = "XCFFile"
        /\ (~IsJpeg /\ ~IsXcf /\ createCall.svg) => createStack[2].cls = "SVGFile"
    /\ (CreateDoneOnImageFile /\ NoRuleMatches) =>
        /\ createLog = <<[cls |-> createCall.cls, sniffed |-> TRUE],
                         [cls |-> createCall.cls, sniffed |-> FALSE]>>
        /\ createResult.handle = 2

\* A jpeg that also passes the svg test is handed to JPEGFile.create; and a
\* png, which no rule matches, comes back as a second handle.
C11_Witness ==
    \/ CreateHandedOn /\ IsJpeg /\ createCall.svg /\ createStack[2].cls = "JPEGFile"
    \/ CreateDoneOnImageFile /\ NoRuleMatches /\ createResult.handle = 2

\* C11: if no rule matches, the handle returned is the generic handle that was
\* constructed and sniffed.
C11_SniffedHandleReturned ==
    (CreateDoneOnImageFile /\ NoRuleMatches) =>
        /\ createResult.handle = 1
        /\ createLog[createResult.handle].sniffed

MaxVersion == 2
MaxDownloadCalls == 4

\* lines 321-323: core, javase, jcommander, in this order
JarNames == <<"core", "javase", "jcommander">>
Jars == {JarNames[i] : i \in DOMAIN JarNames}

\* urlopen gives the response, or raises (URLError)
UrlopenOutcomes == {"response", "raises"}

\* download that asks the url whatever is on disk
download_fetches_Always(exists, overwrite) == TRUE

\* utilities.py line 34: not os.path.exists(filename) or overwrite
download_fetches(exists, overwrite) == ~exists \/ overwrite

\* utilities.py lines 34-37, the whole function; outcome is what urlopen does
\* if it is called.
download_body(filename, overwrite, outcome) ==
    LET exists == jarFiles[filename] # 0
        asks == download_fetches(exists, overwrite)
        fetched == asks /\ outcome = "response"
    IN  /\ jarFiles' = IF fetched
                       THEN [jarFiles EXCEPT ![filename] = remoteJar[filename]]
                       ELSE jarFiles
        /\ fetchCount' = IF fetched /\ ~overwrite
                         THEN [fetchCount EXCEPT ![filename] = @ + 1]
                         ELSE fetchCount
        /\ lastDownload' = [called |-> TRUE, filename |-> filename,
                            overwrite |-> overwrite, existed |-> exists,
                            before |-> jarFiles[filename],
                            served |-> remoteJar[filename],
                            fetched |-> fetched,
                            raised |-> asks /\ outcome = "raises"]
        /\ downloadCalls' = downloadCalls + 1

InitDownload ==
    /\ jarFiles \in [Jars -> {0, 1}]
    /\ remoteJar = [j \in Jars |-> 1]
    /\ jarPc = 0
    /\ lastDownload = [called |-> FALSE]
    /\ fetchCount = [j \in Jars |-> 0]
    /\ downloadCalls = 0
    /\ InitFetchIdle /\ InitDictIdle /\ InitConfigIdle /\ InitBarcodeIdle
    /\ InitCreateIdle

\* download(url, filename, overwrite) called directly
download ==
    /\ downloadCalls < MaxDownloadCalls
    /\ \E filename \in Jars, overwrite \in BOOLEAN, outcome \in UrlopenOutcomes :
            download_body(filename, overwrite, outcome)
    /\ UNCHANGED <<remoteJar, jarPc, fetchVars, dictVars, configVars, barcodeVars,
                   createVars>>

\* image_file.py lines 309-323: the next download_jar of a run of
\* analyze_barcode_zxing; an exception of download ends the run.
download_jar ==
    /\ downloadCalls < MaxDownloadCalls
    /\ \E outcome \in UrlopenOutcomes :
            /\ download_body(JarNames[jarPc + 1], FALSE, outcome)
            /\ jarPc' = IF lastDownload'.raised THEN 0
                        ELSE (jarPc + 1) % Len(JarNames)
    /\ UNCHANGED <<remoteJar, fetchVars, dictVars, configVars, barcodeVars, createVars>>

\* The repository publishes another build under the same url.
publish ==
    /\ \E j \in Jars :
            /\ remoteJar[j] < MaxVersion
            /\ remoteJar' = [remoteJar EXCEPT ![j] = @ + 1]
    /\ UNCHANGED <<jarFiles, jarPc, lastDownload, fetchCount, downloadCalls,
                   fetchVars, dictVars, configVars, barcodeVars, createVars>>

NextDownload == download \/ download_jar \/ publish

SpecDownload == InitDownload /\ [][NextDownload]_vars

\* C15: a download call with overwrite=False fetches the url only if the file
\* was absent, and over all such calls at most once per file; if the file was
\* there the call fetches nothing and the file keeps its content.  A call with
\* overwrite=True asks the url every time and, when the url answers, the file
\* holds what the url serves.
C15_FetchOnlyWhenAbsent ==
    /\ \A j \in Jars : fetchCount[j] <= 1
    /\ lastDownload.called =>
        LET f == lastDownload.filename
        IN  /\ (~lastDownload.overwrite /\ lastDownload.existed) =>
                    /\ ~lastDownload.fetched
                    /\ ~lastDownload.raised
                    /\ jarFiles[f] = lastDownload.before
            /\ (~lastDownload.overwrite /\ ~lastDownload.existed) =>
                    lastDownload.fetched \/ lastDownload.raised
            /\ lastDownload.overwrite =>
                    lastDownload.fetched \/ lastDownload.raised
            /\ lastDownload.fetched => jarFiles[f] = lastDownload.served

\* A second run of analyze_barcode_zxing finds core on disk: the url now
\* serves version 2, nothing is fetched and the file still holds version 1.
C15_Witness ==
    /\ lastDownload.called
    /\ lastDownload.filename = "core"
    /\ ~lastDownload.overwrite
    /\ lastDownload.existed
    /\ ~lastDownload.fetched
    /\ fetchCount["core"] = 1
    /\ remoteJar["core"] = 2
    /\ jarFiles["core"] = 1

====
